---- MODULE Spec2Model ----
(***************************************************************************)
(* A model of the structured-logging facade of huanghe314/log:            *)
(* helper.go (configuration translation, sink builder, tee assembly, the  *)
(* process-wide singleton and its package-level proxies) and the logger   *)
(* file (infoLogger, noopInfoLogger, logger, handleFields).               *)
(*                                                                         *)
(* The zap engine is modelled by what the facade relies on: level         *)
(* parsing, the sampler's per-(level, message) counters, the tee's        *)
(* per-core level check, Logger.check's terminal behaviour for panic,     *)
(* fatal and (in development) dpanic entries, Named and With.             *)
(***************************************************************************)
EXTENDS Integers, Sequences, FiniteSets, TLC

VARIABLES
    _logger,    \* helper.go:332  the active *logger (Nil before init())
    _options,   \* helper.go:333  the stored *Options
    mu,         \* helper.go:334  holder of the Init mutex, or Nil
    samplers,   \* sampler counters of every backend still referenced
    side,       \* the two side channels re-wired by Init (klog, std log)
    loggers,    \* Loggers derived by the application and still held
    view,       \* the InfoLogger the application holds (from V)
    last,       \* observation: the latest call and what it did
    alive,      \* FALSE once the process has exited (Fatal, uncaught panic)
    pc,         \* position of each goroutine that calls Init
    loc,        \* locals of each goroutine that calls Init
    unpublished,\* loggers whose field stores are not yet visible to readers
    hf,         \* arguments and result of a direct handleFields evaluation
    bws         \* arguments and result of a direct buildWriteSyncer evaluation

vars == <<_logger, _options, mu, samplers, side, loggers, view, last, alive,
          pc, loc, unpublished, hf, bws>>

\* A nil pointer.
Nil == [nil |-> TRUE]

-----------------------------------------------------------------------------
(* Levels: zapcore.Level, aliased by the facade.                           *)

DebugLevel == -1
InfoLevel == 0
WarnLevel == 1
ErrorLevel == 2
DPanicLevel == 3
PanicLevel == 4
FatalLevel == 5

Levels == DebugLevel..FatalLevel

\* The level a package-level or Logger method logs at.
MethodLevels == {DebugLevel, InfoLevel, WarnLevel, ErrorLevel, PanicLevel, FatalLevel}

\* Level strings zapcore.Level.UnmarshalText accepts (lower-case spellings
\* and the empty string, which means info).
ValidLevelStrings == {"debug", "info", "warn", "error", "dpanic", "panic", "fatal", ""}

LevelStrings == ValidLevelStrings \cup {"verbose"}

\* zapcore.Level.UnmarshalText: the level and whether the text was accepted.
UnmarshalText(s) ==
    CASE s = "debug"  -> [err |-> FALSE, lvl |-> DebugLevel]
      [] s = "info"   -> [err |-> FALSE, lvl |-> InfoLevel]
      [] s = ""       -> [err |-> FALSE, lvl |-> InfoLevel]
      [] s = "warn"   -> [err |-> FALSE, lvl |-> WarnLevel]
      [] s = "error"  -> [err |-> FALSE, lvl |-> ErrorLevel]
      [] s = "dpanic" -> [err |-> FALSE, lvl |-> DPanicLevel]
      [] s = "panic"  -> [err |-> FALSE, lvl |-> PanicLevel]
      [] s = "fatal"  -> [err |-> FALSE, lvl |-> FatalLevel]
      [] OTHER        -> [err |-> TRUE,  lvl |-> InfoLevel]

-----------------------------------------------------------------------------
(* Options and their translation.                                          *)

StdoutPath == "stdout"
StderrPath == "stderr"

\* helper.go:357  the reserved console destinations.
_stdouts == {StdoutPath, StderrPath}

\* The documented defaults of NewOptions().
NewOptions ==
    [Level |-> "info", Development |-> FALSE, DisableStacktrace |-> FALSE,
     OutputPaths |-> <<StdoutPath>>, ErrorOutputPaths |-> <<StderrPath>>]

SamplingInitial == 100
SamplingThereafter == 100

\* helper.go:34  zapConfigFromOpts: an unparsable level falls back to info.
zapConfigFromOpts(opts) ==
    LET parsed == UnmarshalText(opts.Level)
        zapLevel == IF parsed.err THEN InfoLevel ELSE parsed.lvl
    IN  [Level |-> zapLevel,
         Development |-> opts.Development,
         DisableStacktrace |-> opts.DisableStacktrace,
         Sampling |-> [Initial |-> SamplingInitial, Thereafter |-> SamplingThereafter],
         OutputPaths |-> opts.OutputPaths,
         ErrorOutputPaths |-> opts.ErrorOutputPaths]

-----------------------------------------------------------------------------
(* Sink builder.                                                           *)

RECURSIVE buildLoop(_, _, _)
\* helper.go:66-87  the loop of buildWriteSyncer over the paths left, with
\* the sinks, closers and errors collected so far. failing: the console
\* paths whose zap.Open returns an error.
buildLoop(paths, failing, acc) ==
    IF paths = <<>> THEN acc
    ELSE LET p == Head(paths)
         IN  IF p \in _stdouts
             THEN IF p \in failing
                  THEN buildLoop(Tail(paths), failing,
                                 [acc EXCEPT !.errs = Append(@, p)])
                  ELSE buildLoop(Tail(paths), failing,
                                 [acc EXCEPT !.closers = Append(@, p),
                                             !.res = Append(@, [kind |-> "console", path |-> p])])
             ELSE buildLoop(Tail(paths), failing,
                            [acc EXCEPT !.res = Append(@, [kind |-> "file", path |-> p])])

\* buildWriteSyncer that hands back the sinks that did open when others
\* failed.
buildWriteSyncerPartial(paths, failing) ==
    LET acc == buildLoop(paths, failing, [res |-> <<>>, closers |-> <<>>, errs |-> <<>>])
    IN  IF Len(acc.errs) # 0
        THEN [w |-> [members |-> acc.res], err |-> acc.errs, closed |-> acc.closers,
              opened |-> acc.res]
        ELSE [w |-> [members |-> acc.res], err |-> <<>>, closed |-> <<>>, opened |-> acc.res]

\* helper.go:57  buildWriteSyncer: the fan-out sink, or the aggregate error
\* with the closers that closeAll ran.
buildWriteSyncer(paths, failing) ==
    LET acc == buildLoop(paths, failing, [res |-> <<>>, closers |-> <<>>, errs |-> <<>>])
    IN  IF Len(acc.errs) # 0
        THEN [w |-> Nil, err |-> acc.errs, closed |-> acc.closers, opened |-> acc.res]
        ELSE [w |-> [members |-> acc.res], err |-> <<>>, closed |-> <<>>, opened |-> acc.res]

-----------------------------------------------------------------------------
(* Severity ranges and the tee.                                            *)

\* levelFunc with the lower end of the range excluded.
levelFuncExclusive(minLevel, maxLvl, level) ==
    IF minLevel > maxLvl THEN FALSE
    ELSE IF maxLvl > FatalLevel THEN FALSE
    ELSE IF level <= minLevel \/ level > maxLvl THEN FALSE
    ELSE TRUE

\* helper.go:210  levelFunc: the predicate of one tee core.
levelFunc(minLevel, maxLvl, level) ==
    IF minLevel > maxLvl THEN FALSE
    ELSE IF maxLvl > FatalLevel THEN FALSE
    ELSE IF level < minLevel \/ level > maxLvl THEN FALSE
    ELSE TRUE

\* maxLevel with the comparison turned round (the smaller of the two).
maxLevelSwapped(x, y) == IF x > y THEN y ELSE x

\* helper.go:226  maxLevel.
maxLevel(x, y) == IF x < y THEN y ELSE x

\* Positions of the two cores in Init's teeOpts.
NormalCore == 1
ErrorCore == 2

\* helper.go:198  normalLogOpts: the tee option of the outputPaths sink.
normalLogOpts(level, syncer) ==
    [w |-> syncer, min |-> level, max |-> WarnLevel]

\* helper.go:388  the tee option of the errorOutputPaths sink.
errorLogOpts(baseLevel, errSyncer) ==
    [w |-> errSyncer, min |-> maxLevel(baseLevel, WarnLevel), max |-> FatalLevel]

\* helper.go:120  buildZapOptions, with the two options Init appends
\* (helper.go:394): the options of zap.New, in order.
buildZapOptions(cfg) ==
    <<[o |-> "ErrorOutput"]>>
    \o (IF cfg.Development THEN <<[o |-> "Development"]>> ELSE <<>>)
    \o (IF ~cfg.DisableStacktrace
        THEN <<[o |-> "AddStacktrace",
                lvl |-> IF cfg.Development THEN WarnLevel ELSE PanicLevel]>>
        ELSE <<>>)
    \o <<[o |-> "WrapCore"]>>

InitZapOptions(cfg) ==
    buildZapOptions(cfg) \o <<[o |-> "AddStacktrace", lvl |-> PanicLevel]>>

RECURSIVE applyOptions(_, _)
\* zap.New applies the options in order to the fresh logger.
applyOptions(zl, opts) ==
    IF opts = <<>> THEN zl
    ELSE LET op == Head(opts)
             nzl == CASE op.o = "Development"   -> [zl EXCEPT !.development = TRUE]
                      [] op.o = "AddStacktrace" -> [zl EXCEPT !.addStack = op.lvl]
                      [] op.o = "WrapCore"      -> [zl EXCEPT !.sampled = TRUE]
                      [] OTHER                  -> zl
         IN  applyOptions(nzl, Tail(opts))

\* helper.go:173  newTee: the zap logger over the tee of the cores.
\* be names the backend (its sampler's counters live in samplers[be]).
newTee(be, topts, zopts) ==
    applyOptions([be |-> be, tee |-> topts, development |-> FALSE,
                  addStack |-> FatalLevel + 1, sampled |-> FALSE,
                  name |-> <<>>, fields |-> <<>>], zopts)

\* helper.go:443  NewLogger / helper.go:187: the wrapper, whose embedded
\* infoLogger logs at info through the same zap logger.
NewLogger(zl) == [zapLogger |-> zl, infoLogger |-> [level |-> InfoLevel, log |-> zl]]

\* The cores of the tee that accept a level.
TeeCores(zl, level) ==
    {i \in DOMAIN zl.tee : levelFunc(zl.tee[i].min, zl.tee[i].max, level)}

\* Core().Enabled(level): the sampler delegates to the tee.
CoreEnabled(zl, level) == TeeCores(zl, level) # {}

-----------------------------------------------------------------------------
(* Bounds of the model.                                                    *)

\* Log calls with one (level, message) key inside one sampler tick.
MaxCalls == 102
\* Derived Loggers the application holds at once.
MaxLoggers == 2
\* Length of a key-value argument list handed to handleFields directly.
MaxArgs == 4

\* Length of a path list handed to buildWriteSyncer directly.
MaxPaths == 3

BackendIds == 0..(MaxLoggers + 5)

-----------------------------------------------------------------------------
(* The sampler (zapcore.NewSamplerWithOptions, helper.go:146) and          *)
(* Logger.check.                                                           *)

\* The counter of one (backend, level, message) key in the current tick.
Count(smp, be, lvl, msg) ==
    IF \E r \in smp : r.be = be /\ r.lvl = lvl /\ r.msg = msg
    THEN (CHOOSE r \in smp : r.be = be /\ r.lvl = lvl /\ r.msg = msg).n
    ELSE 0

\* counter.IncCheckReset within a tick: the key's counter, incremented.
Incremented(smp, be, lvl, msg) ==
    {r \in smp : ~(r.be = be /\ r.lvl = lvl /\ r.msg = msg)}
    \cup {[be |-> be, lvl |-> lvl, msg |-> msg, n |-> Count(smp, be, lvl, msg) + 1]}

\* The sampler's decision for the n-th entry of a key in a tick:
\* the first Initial pass, then every Thereafter-th.
SamplerDrops(n) ==
    n > SamplingInitial /\ (n - SamplingInitial) % SamplingThereafter # 0

\* What Logger.check does after the entry is written, whether or not a core
\* accepted it: panic and fatal always act, dpanic in development only.
TerminalAction(zl, lvl) ==
    CASE lvl = PanicLevel -> "panic"
      [] lvl = FatalLevel -> "exit"
      [] lvl = DPanicLevel /\ zl.development -> "panic"
      [] OTHER -> "return"

\* zap.Logger.Check(lvl, msg) on logger zl with sampler counters smp:
\* the cores that will write, the terminal action, and the counters after.
\* A level no core accepts is rejected before the sampler counts it.
LoggerCheck(zl, smp, lvl, msg) ==
    LET enabled == CoreEnabled(zl, lvl)
        counted == enabled /\ zl.sampled
        smp2    == IF counted THEN Incremented(smp, zl.be, lvl, msg) ELSE smp
        n       == Count(smp2, zl.be, lvl, msg)
        dropped == counted /\ SamplerDrops(n)
        cores   == IF enabled /\ ~dropped THEN TeeCores(zl, lvl) ELSE {}
        after   == TerminalAction(zl, lvl)
    IN  [cores |-> cores, after |-> after, smp |-> smp2, n |-> n,
         nonNil |-> cores # {} \/ after # "return",
         stack |-> cores # {} /\ lvl >= zl.addStack]

-----------------------------------------------------------------------------
(* Key-value normalization (handleFields).                                 *)

\* What a caller can put in a key-value list: a string, a value that is
\* not a string, a strongly-typed zap.Field.
StringArg == [t |-> "string", v |-> "k"]
OtherStringArg == [t |-> "string", v |-> "j"]
IntArg == [t |-> "int", v |-> "7"]
FieldArg == [t |-> "field", v |-> "f"]

ArgElements == {StringArg, OtherStringArg, IntArg, FieldArg}

\* Every list over a set of elements, up to a length.
ListsUpTo(S, n) == UNION {[1..k -> S] : k \in 0..n}

\* zap.zapAny(key, val): the generic field of one pair.
zapAny(keyStr, val) == [key |-> keyStr, val |-> val]

\* The diagnostics handleFields logs at dpanic level.
FieldDiag == "strongly-typed Zap Field passed to logr"
OddDiag == "odd number of arguments passed as key-value pairs for logging"
NonStringDiag == "non-string key argument passed to logging, ignoring all later arguments"
NoDiag == ""

RECURSIVE handleFieldsLoop(_, _, _)
\* The loop with every later pair kept: a bad key is skipped, not fatal.
handleFieldsLoopSkipping(args, i, fields) ==
    IF ~(i <= Len(args)) THEN [fields |-> fields, diag |-> NoDiag]
    ELSE IF i = Len(args) THEN [fields |-> fields, diag |-> OddDiag]
    ELSE IF args[i].t # "string"
         THEN [fields |-> handleFieldsLoop(args, i + 2, fields).fields,
               diag |-> NonStringDiag]
         ELSE handleFieldsLoop(args, i + 2, Append(fields, zapAny(args[i].v, args[i + 1])))

\* unnamed/part_000:179-211  the loop of handleFields from position i, with
\* the fields accumulated so far: the fields at the loop's exit and the
\* diagnostic it logged before a break (NoDiag when it ran to the end).
handleFieldsLoop(args, i, fields) ==
    IF ~(i <= Len(args)) THEN [fields |-> fields, diag |-> NoDiag]
    ELSE IF args[i].t = "field" THEN [fields |-> fields, diag |-> FieldDiag]
    ELSE IF i = Len(args) THEN [fields |-> fields, diag |-> OddDiag]
    ELSE IF args[i].t # "string" THEN [fields |-> fields, diag |-> NonStringDiag]
    ELSE handleFieldsLoop(args, i + 2, Append(fields, zapAny(args[i].v, args[i + 1])))

\* handleFields that drops the malformed tail without reporting it.
handleFieldsSilent(args, additional) ==
    IF Len(args) = 0
    THEN [fields |-> additional, diag |-> NoDiag]
    ELSE [fields |-> handleFieldsLoop(args, 1, <<>>).fields \o additional,
          diag |-> NoDiag]

\* unnamed/part_000:168  handleFields, up to its return: the fields it
\* returns and the diagnostic it hands to l.DPanic on the way.
handleFields(args, additional) ==
    IF Len(args) = 0
    THEN [fields |-> additional, diag |-> NoDiag]
    ELSE LET r == handleFieldsLoop(args, 1, <<>>)
         IN  [fields |-> r.fields \o additional, diag |-> r.diag]

-----------------------------------------------------------------------------
(* Observations.                                                           *)

\* The shape of an observation of one call.
NoCall ==
    [op |-> "none", level |-> InfoLevel, cores |-> {}, after |-> "return", n |-> 0,
     name |-> <<>>, fields |-> <<>>, diag |-> 0, diagCores |-> {}, ret |-> FALSE,
     form |-> "", args |-> <<>>, normalized |-> FALSE, recv |-> 0,
     stack |-> FALSE, opts |-> Nil, err |-> <<>>]

\* The backends some reference still reaches.
Refs(lg, sd, lgs, vw, lc) ==
    (IF lg = Nil THEN {} ELSE {lg.zapLogger.be})
    \cup {sd[c].be : c \in {c \in DOMAIN sd : sd[c] # Nil}}
    \cup {lgs[i].zapLogger.be : i \in DOMAIN lgs}
    \cup (IF vw.kind = "live" THEN {vw.log.be} ELSE {})
    \cup {lc[g].logger.zapLogger.be : g \in {g \in DOMAIN lc : lc[g].logger # Nil}}

\* Counters of backends nothing references any more are garbage.
Collect(smp, refs) == {r \in smp : r.be \in refs}

\* The smallest backend name not in use.
FreshBe(refs) == CHOOSE i \in BackendIds : i \notin refs /\ \A j \in 0..(i - 1) : j \in refs

NoView == [kind |-> "none", level |-> InfoLevel, log |-> Nil]

-----------------------------------------------------------------------------
(* Init (helper.go:374), as one sequential call in which every console     *)
(* stream opens.                                                           *)

\* helper.go:378-396  everything Init builds from opts: the two syncers and,
\* when both were built, the wrapper logger over backend be.
InitBuild(opts, be, failing) ==
    LET zapCfg    == zapConfigFromOpts(opts)
        baseLevel == zapCfg.Level
        normal    == buildWriteSyncer(opts.OutputPaths, failing)
        errS      == buildWriteSyncer(opts.ErrorOutputPaths, failing)
        teeOpts   == <<normalLogOpts(baseLevel, normal.w), errorLogOpts(baseLevel, errS.w)>>
    IN  [normal |-> normal, errS |-> errS,
         logger |-> NewLogger(newTee(be, teeOpts, InitZapOptions(zapCfg)))]

\* Options the model passes to Init in the sequential specifications.
GateOptions ==
    {[NewOptions EXCEPT !.Level = s, !.Development = d, !.DisableStacktrace = ds] :
        s \in LevelStrings, d \in BOOLEAN, ds \in {FALSE}}

\* Init(opts) run to completion with no concurrent caller.
InitCall(opts) ==
    /\ alive
    /\ LET be == FreshBe(Refs(_logger, side, loggers, view, loc))
           b  == InitBuild(opts, be, {})
           sd == [klog |-> b.logger.zapLogger, std |-> b.logger.zapLogger]
       IN  /\ _options' = opts
           /\ _logger' = b.logger
           /\ side' = sd
           /\ samplers' = Collect(samplers, Refs(b.logger, sd, loggers, view, loc))
           /\ last' = [NoCall EXCEPT !.op = "Init"]
    /\ UNCHANGED <<mu, loggers, view, alive, pc, loc, unpublished, hf, bws>>

\* The sampler's tick (time.Second, helper.go:148) passes: every counter
\* restarts.
Tick ==
    /\ alive
    /\ samplers # {}
    /\ samplers' = {}
    /\ last' = [NoCall EXCEPT !.op = "Tick"]
    /\ UNCHANGED <<_logger, _options, mu, side, loggers, view, alive, pc, loc,
                   unpublished, hf, bws>>

-----------------------------------------------------------------------------
(* Package-level log calls (helper.go:472-560).                            *)

Forms == {"plain", "f", "w"}

\* The fields a call of each form hands to CheckedEntry.Write: the typed
\* fields as given, none for the printf form, one per pair for the
\* key-value form (well-formed pairs).
CallFields(form) ==
    CASE form = "plain" -> <<[key |-> "k", val |-> "v"]>>
      [] form = "f"     -> <<>>
      [] form = "w"     -> <<[key |-> "k", val |-> "v"]>>

\* One entry checked and, if the checked entry is not nil, written, through
\* zap logger zl: the observation of the call.
Emit(op, zl, smp, lvl, msg, fields) ==
    LET ce == LoggerCheck(zl, smp, lvl, msg)
    IN  [NoCall EXCEPT !.op = op, !.level = lvl, !.cores = ce.cores,
                       !.after = IF ce.nonNil THEN ce.after ELSE "return",
                       !.n = ce.n, !.name = zl.name,
                       !.fields = IF ce.cores # {} THEN zl.fields \o fields ELSE <<>>,
                       !.stack = ce.stack]

\* Debug .. Fatalw on the global logger.
LogCall(lvl, form) ==
    /\ alive
    /\ _logger # Nil
    /\ LET zl == _logger.zapLogger
           ce == LoggerCheck(zl, samplers, lvl, "m")
       IN  /\ ce.n < MaxCalls
           /\ \A r \in samplers : r.lvl = lvl /\ r.msg = "m"
           /\ samplers' = ce.smp
           /\ last' = [Emit("log", zl, samplers, lvl, "m", CallFields(form))
                         EXCEPT !.form = form]
           /\ alive' = (ce.after # "exit")
    /\ UNCHANGED <<_logger, _options, mu, side, loggers, view, pc, loc,
                   unpublished, hf, bws>>

-----------------------------------------------------------------------------
(* The sequential specification: init() has run with the defaults          *)
(* (helper.go:369), then Init, log calls and ticks.                        *)

StartLogger == InitBuild(NewOptions, 0, {}).logger

Init ==
    /\ _logger = StartLogger
    /\ _options = NewOptions
    /\ mu = 0
    /\ samplers = {}
    /\ side = [klog |-> StartLogger.zapLogger, std |-> StartLogger.zapLogger]
    /\ loggers = <<>>
    /\ view = NoView
    /\ last = NoCall
    /\ alive = TRUE
    /\ pc = <<>>
    /\ loc = <<>>
    /\ unpublished = {}
    /\ hf = Nil
    /\ bws = Nil

Next ==
    \/ \E opts \in GateOptions : InitCall(opts)
    \/ \E lvl \in MethodLevels, form \in Forms : LogCall(lvl, form)
    \/ Tick

Spec == Init /\ [][Next]_vars

-----------------------------------------------------------------------------
(* Level gating and severity-band routing.                                 *)

\* The minimum level Init derives from the stored options.
BaseLevel == zapConfigFromOpts(_options).Level

\* C1 (as stated): after Init with a valid level string S, every log call
\* at severity L through the global logger, wherever it occurs in a
\* sequence of log calls, emits a record to at least one sink iff L is at
\* or above the level parsed from S.
C1_GatingEveryCall ==
    (last.op = "log" /\ _options.Level \in ValidLevelStrings)
        => (last.cores # {} <=> last.level >= UnmarshalText(_options.Level).lvl)

\* C1 (amended): after Init with a valid level string S, no log call below
\* the level parsed from S emits a record, and a log call at or above it
\* emits a record to at least one sink whenever it is among the first 100
\* calls with its level and message in the current one-second sampling
\* tick.
C1_GatingWithinBurst ==
    (last.op = "log" /\ _options.Level \in ValidLevelStrings)
        => /\ last.cores # {} => last.level >= UnmarshalText(_options.Level).lvl
           /\ last.n <= SamplingInitial
                => (last.cores # {} <=> last.level >= UnmarshalText(_options.Level).lvl)

\* The hundredth error record of a tick under Level="error" is emitted.
C1_Witness ==
    /\ last.op = "log"
    /\ _options.Level = "error"
    /\ last.level = ErrorLevel
    /\ last.n = SamplingInitial
    /\ last.cores # {}

\* C2: after Init with base level B, a record of level L that reaches the
\* tee is written by the outputPaths core iff B <= L <= warn and by the
\* errorOutputPaths core iff max(B, warn) <= L <= fatal; so every such
\* record with L >= B reaches a sink, a warn record reaches both, and with
\* B above warn the outputPaths core receives no record at all.
C2_BandRouting ==
    last.op = "log" =>
        /\ last.n <= SamplingInitial =>
            /\ NormalCore \in last.cores
                  <=> (BaseLevel <= last.level /\ last.level <= WarnLevel)
            /\ ErrorCore \in last.cores
                  <=> (BaseLevel <= last.level /\ WarnLevel <= last.level
                         /\ last.level <= FatalLevel)
            /\ last.level >= BaseLevel => last.cores # {}
            /\ (last.level = WarnLevel /\ BaseLevel <= WarnLevel)
                  => last.cores = {NormalCore, ErrorCore}
        /\ BaseLevel > WarnLevel => NormalCore \notin last.cores

\* A warn record under Level="debug" reaches both sinks.
C2_Witness ==
    /\ last.op = "log"
    /\ _options.Level = "debug"
    /\ last.level = WarnLevel
    /\ last.cores = {NormalCore, ErrorCore}

-----------------------------------------------------------------------------
(* handleFields evaluated on every bounded argument list.                  *)

\* l.DPanic(msg, ...) inside handleFields: the diagnostic entry checked and
\* written through the same logger; in development mode it then panics.
DPanic(zl, smp, msg) == LoggerCheck(zl, smp, DPanicLevel, msg)

\* handleFields(l, args, additional...) with its side effect: the returned
\* fields, the number of diagnostics logged, the cores that wrote the
\* diagnostic, the sampler counters after, and whether the diagnostic
\* panicked (then nothing is returned).
HandleFieldsRun(zl, smp, args, additional) ==
    LET r == handleFields(args, additional)
    IN  IF r.diag = NoDiag
        THEN [fields |-> r.fields, diag |-> 0, diagCores |-> {}, smp |-> smp,
              panicked |-> FALSE]
        ELSE LET d == DPanic(zl, smp, r.diag)
             IN  [fields |-> r.fields, diag |-> 1, diagCores |-> d.cores,
                  smp |-> d.smp, panicked |-> d.after = "panic"]

\* Pre-built fields appended unconditionally.
ErrField == [key |-> "error", val |-> [t |-> "error", v |-> "e"]]
IdField == [key |-> "id", val |-> [t |-> "int", v |-> "1"]]

AdditionalLists == {<<>>, <<ErrField>>, <<ErrField, IdField>>, <<IdField, ErrField>>}

\* A direct evaluation pending on the global logger, after Init in
\* production or development mode.
HFInit ==
    /\ \E d \in BOOLEAN :
          /\ _options = [NewOptions EXCEPT !.Development = d]
          /\ _logger = InitBuild(_options, 0, {}).logger
    /\ mu = 0
    /\ samplers = {}
    /\ side = [klog |-> _logger.zapLogger, std |-> _logger.zapLogger]
    /\ loggers = <<>>
    /\ view = NoView
    /\ last = NoCall
    /\ alive = TRUE
    /\ pc = <<>>
    /\ loc = <<>>
    /\ unpublished = {}
    /\ hf \in {[state |-> "call", args |-> a, additional |-> ad, out |-> <<>>] :
                  a \in ListsUpTo(ArgElements, MaxArgs), ad \in AdditionalLists}
    /\ bws = Nil

\* handleFields(_logger.zapLogger, hf.args, hf.additional...) returns.
HandleFieldsCall ==
    /\ hf.state = "call"
    /\ LET r == HandleFieldsRun(_logger.zapLogger, samplers, hf.args, hf.additional)
       IN  /\ hf' = [hf EXCEPT !.state = IF r.panicked THEN "panicked" ELSE "returned",
                               !.out = IF r.panicked THEN <<>> ELSE r.fields]
           /\ samplers' = r.smp
           /\ last' = [NoCall EXCEPT !.op = "handleFields", !.diag = r.diag,
                                     !.diagCores = r.diagCores,
                                     !.after = IF r.panicked THEN "panic" ELSE "return"]
    /\ UNCHANGED <<_logger, _options, mu, side, loggers, view, alive, pc, loc,
                   unpublished, bws>>

HFNext == HandleFieldsCall

SpecHF == HFInit /\ [][HFNext]_vars

\* The number of leading pairs whose key position holds a string: the
\* pairs of the longest well-formed prefix.
WellFormedPairs(args) ==
    CHOOSE k \in 0..Len(args) :
        /\ 2 * k <= Len(args)
        /\ \A j \in 1..k : args[2 * j - 1].t = "string"
        /\ (2 * (k + 1) <= Len(args) => args[2 * k + 1].t # "string")

\* C3: handleFields returns one generic field per (key, value) pair of the
\* longest well-formed prefix of args, in input order, followed by the
\* pre-built fields in their given order; for empty args, exactly the
\* pre-built fields.
C3_NormalizedResult ==
    hf.state = "returned" =>
        /\ hf.out = [j \in 1..WellFormedPairs(hf.args) |->
                        [key |-> hf.args[2 * j - 1].v, val |-> hf.args[2 * j]]]
                    \o hf.additional
        /\ hf.args = <<>> => hf.out = hf.additional

\* A list whose second key is not a string, with two pre-built fields: the
\* first pair and both pre-built fields come back.
C3_Witness ==
    /\ hf.state = "returned"
    /\ hf.args = <<StringArg, IntArg, IntArg>>
    /\ hf.additional = <<ErrField, IdField>>
    /\ Len(hf.out) = 3

-----------------------------------------------------------------------------
(* InfoLogger values: infoLogger, noopInfoLogger and V.                    *)

\* unnamed/part_000:18  disabledInfoLogger, the one noopInfoLogger. The
\* code's value holds nothing; level records what V was asked for.
disabledInfoLogger(asked) == [kind |-> "noop", level |-> asked, log |-> Nil]

\* V with the test of the level dropped: always a live view.
VUnchecked(l, level) == [kind |-> "live", level |-> level, log |-> l.zapLogger]

\* unnamed/part_000:65  logger.V.
V(l, level) ==
    IF CoreEnabled(l.zapLogger, level)
    THEN [kind |-> "live", level |-> level, log |-> l.zapLogger]
    ELSE disabledInfoLogger(level)

\* The infoLogger embedded in a Logger (helper.go:446), as an InfoLogger.
Embedded(l) ==
    [kind |-> "live", level |-> l.infoLogger.level, log |-> l.infoLogger.log]

InfoMethods == {"Info", "Infof", "Infow", "Enabled"}

\* The key-value lists handed to Infow and WithValues: empty, well formed,
\* and each kind of malformed list without and with a well-formed pair
\* before the bad key.
KVLists ==
    {<<>>, <<StringArg, IntArg>>,
     <<StringArg>>, <<IntArg, StringArg>>, <<FieldArg>>,
     <<StringArg, IntArg, OtherStringArg>>,
     <<StringArg, IntArg, IntArg, StringArg>>,
     <<StringArg, IntArg, FieldArg>>,
     <<OtherStringArg, StringArg>>}

\* unnamed/part_000:49  infoLogger.Infow: the entry is checked first; only
\* a non-nil checked entry has its key-value list normalized, and a
\* diagnostic that panics leaves the record unwritten.
Infow(iv, args, smp) ==
    LET zl == iv.log
        ce == LoggerCheck(zl, smp, iv.level, "m")
        hr == HandleFieldsRun(zl, ce.smp, args, <<>>)
        base == [NoCall EXCEPT !.op = "Infow", !.level = iv.level, !.n = ce.n,
                               !.name = zl.name, !.args = args]
    IN  IF ~ce.nonNil
        THEN [obs |-> base, smp |-> ce.smp]
        ELSE IF hr.panicked
        THEN [obs |-> [base EXCEPT !.normalized = TRUE, !.diag = hr.diag,
                                   !.diagCores = hr.diagCores, !.after = "panic"],
              smp |-> hr.smp]
        ELSE [obs |-> [base EXCEPT !.normalized = TRUE, !.diag = hr.diag,
                                   !.diagCores = hr.diagCores, !.cores = ce.cores,
                                   !.after = ce.after, !.stack = ce.stack,
                                   !.fields = IF ce.cores # {}
                                              THEN zl.fields \o hr.fields ELSE <<>>],
              smp |-> hr.smp]

\* unnamed/part_000:13-16, 35-53  one InfoLogger method on a view: the
\* observation of the call and the sampler counters after it.
InfoCall(iv, method, args, smp) ==
    IF iv.kind = "noop"
    THEN [obs |-> [NoCall EXCEPT !.op = method], smp |-> smp]
    ELSE CASE method = "Enabled" ->
                [obs |-> [NoCall EXCEPT !.op = method, !.ret = TRUE], smp |-> smp]
           [] method = "Info" ->
                [obs |-> Emit(method, iv.log, smp, iv.level, "m", CallFields("plain")),
                 smp |-> LoggerCheck(iv.log, smp, iv.level, "m").smp]
           [] method = "Infof" ->
                [obs |-> Emit(method, iv.log, smp, iv.level, "m", CallFields("f")),
                 smp |-> LoggerCheck(iv.log, smp, iv.level, "m").smp]
           [] method = "Infow" -> Infow(iv, args, smp)

\* The argument lists a method takes in the model: key-value lists for
\* Infow, nothing to vary for the others.
MethodArgs(method) == IF method = "Infow" THEN KVLists ELSE {<<>>}

\* In the view and derivation specifications the calls are at least a
\* sampler tick apart: each starts in a tick in which no sampler has
\* counted yet. Bursts inside a tick are the sequential specification's.
FreshTick == samplers = {}

\* zap.Logger.Named(s): a clone with the segment appended to the dotted
\* name (the name is kept as its segments); the receiver itself for "".
zapNamed(zl, seg) == IF seg = "" THEN zl ELSE [zl EXCEPT !.name = Append(@, seg)]

\* With, forgetting the fields the receiver already carries.
zapWithReplacing(zl, fields) == IF Len(fields) = 0 THEN zl ELSE [zl EXCEPT !.fields = fields]

\* zap.Logger.With(fields...): a clone carrying the receiver's fields and
\* the new ones; the receiver itself for no fields.
zapWith(zl, fields) == IF Len(fields) = 0 THEN zl ELSE [zl EXCEPT !.fields = @ \o fields]

\* unnamed/part_000:86  logger.WithName.
WithName(l, seg) == NewLogger(zapNamed(l.zapLogger, seg))

\* unnamed/part_000:92  logger.WithValues: the derived Logger (none when
\* the diagnostic of a malformed list panicked) and the observation.
WithValues(l, args, smp) ==
    LET hr == HandleFieldsRun(l.zapLogger, smp, args, <<>>)
        nl == NewLogger(zapWith(l.zapLogger, hr.fields))
    IN  [logger |-> IF hr.panicked THEN Nil ELSE nl,
         smp |-> hr.smp,
         obs |-> [NoCall EXCEPT !.op = "WithValues", !.args = args, !.normalized = TRUE,
                                !.diag = hr.diag, !.diagCores = hr.diagCores,
                                !.after = IF hr.panicked THEN "panic" ELSE "return",
                                !.ret = ~hr.panicked,
                                !.name = IF hr.panicked THEN <<>> ELSE nl.zapLogger.name,
                                !.fields = IF hr.panicked THEN <<>> ELSE nl.zapLogger.fields]]

\* Levels V is asked for: the defined ones and one beyond each end.
VLevels == (DebugLevel - 1)..(FatalLevel + 1)

\* V(level) on the global logger (helper.go:429); the view is kept.
AcquireView(level) ==
    /\ alive
    /\ FreshTick
    /\ view' = V(_logger, level)
    /\ last' = [NoCall EXCEPT !.op = "V", !.level = level, !.ret = view'.kind = "live"]
    /\ samplers' = Collect(samplers, Refs(_logger, side, loggers, view', loc))
    /\ UNCHANGED <<_logger, _options, mu, side, loggers, alive, pc, loc,
                   unpublished, hf, bws>>

\* An InfoLogger method on the held view.
ViewCall(method, args) ==
    /\ alive
    /\ view.kind # "none"
    /\ LET r == InfoCall(view, method, args, samplers)
       IN  /\ FreshTick
           /\ samplers' = r.smp
           /\ last' = [r.obs EXCEPT !.form = "view"]
           /\ alive' = (r.obs.after # "exit")
    /\ UNCHANGED <<_logger, _options, mu, side, loggers, view, pc, loc,
                   unpublished, hf, bws>>

\* An InfoLogger method called directly on the global Logger (its embedded
\* infoLogger).
DirectCall(method, args) ==
    /\ alive
    /\ LET r == InfoCall(Embedded(_logger), method, args, samplers)
       IN  /\ FreshTick
           /\ samplers' = r.smp
           /\ last' = [r.obs EXCEPT !.form = "direct"]
           /\ alive' = (r.obs.after # "exit")
    /\ UNCHANGED <<_logger, _options, mu, side, loggers, view, pc, loc,
                   unpublished, hf, bws>>

\* WithValues(kv...) on the global logger (helper.go:432); the derived
\* Logger is observed and not kept.
GlobalWithValues(args) ==
    /\ alive
    /\ FreshTick
    /\ LET r == WithValues(_logger, args, samplers)
       IN  /\ samplers' = r.smp
           /\ last' = [r.obs EXCEPT !.form = "direct"]
    /\ UNCHANGED <<_logger, _options, mu, side, loggers, view, alive, pc, loc,
                   unpublished, hf, bws>>

\* Options the model passes to Init in the view specification.
ViewOptions ==
    {[NewOptions EXCEPT !.Level = s, !.Development = d] :
        s \in {"debug", "warn", "panic"}, d \in BOOLEAN}

ViewNext ==
    \/ \E opts \in ViewOptions : FreshTick /\ InitCall(opts)
    \/ \E level \in VLevels : AcquireView(level)
    \/ \E method \in InfoMethods : \E args \in MethodArgs(method) : ViewCall(method, args)
    \/ \E method \in InfoMethods : \E args \in MethodArgs(method) : DirectCall(method, args)
    \/ \E args \in KVLists : GlobalWithValues(args)
    \/ Tick

SpecView == Init /\ [][ViewNext]_vars

-----------------------------------------------------------------------------
(* Malformed key-value lists, views and direct calls.                      *)

\* A list the well-formed prefix does not cover.
Malformed(args) == 2 * WellFormedPairs(args) # Len(args)

\* The generic fields of the well-formed prefix.
PrefixFields(args) ==
    [j \in 1..WellFormedPairs(args) |-> [key |-> args[2 * j - 1].v, val |-> args[2 * j]]]

\* The zap logger the latest call went through.
UsedLogger == IF last.form = "view" THEN view.log ELSE _logger.zapLogger

\* C4 (as stated): for every malformed list passed to a call that
\* normalizes it, under every Options configuration including
\* development mode, exactly one diagnostic is logged, the call returns
\* normally and the record with the well-formed prefix is still emitted.
C4_NeverFailsCaller ==
    (last.normalized /\ Malformed(last.args)) =>
        /\ last.diag = 1
        /\ last.after = "return"
        /\ last.fields = PrefixFields(last.args)
        /\ last.op = "Infow" => last.cores # {}

\* C4 (amended): with Development=false a malformed list triggers exactly
\* one diagnostic self-log and never fails the caller by itself:
\* WithValues returns the Logger carrying the well-formed prefix, and Infow
\* on a view emits the record with the well-formed prefix and returns
\* normally unless the view's own level is panic or fatal. With
\* Development=true the one diagnostic panics: the call does not return
\* normally and no record (or derived Logger) results.
C4_MalformedByMode ==
    (last.normalized /\ Malformed(last.args)) =>
        /\ last.diag = 1
        /\ UsedLogger.development =>
              /\ last.after = "panic"
              /\ last.cores = {}
              /\ last.fields = <<>>
              /\ ~last.ret
        /\ ~UsedLogger.development =>
              /\ last.fields = PrefixFields(last.args)
              /\ last.op = "WithValues" => (last.after = "return" /\ last.ret)
              /\ last.op = "Infow" =>
                    /\ last.cores # {}
                    /\ last.after = (CASE last.level = PanicLevel -> "panic"
                                       [] last.level = FatalLevel -> "exit"
                                       [] OTHER -> "return")

\* In production mode, Infow on a warn view with a pair followed by a
\* non-string key has logged one diagnostic and emitted the record with
\* the pair.
C4_Witness ==
    /\ last.op = "Infow"
    /\ last.form = "view"
    /\ last.level = WarnLevel
    /\ ~view.log.development
    /\ last.args = <<StringArg, IntArg, IntArg, StringArg>>
    /\ last.diag = 1
    /\ last.cores # {}
    /\ Len(last.fields) = 1

\* C5: V(level) decides once. The view is live (Enabled() true) iff the
\* backend accepts the level when V is called; only V changes the held
\* view; on the disabled view Enabled() is false and Info, Infof and Infow
\* emit nothing and change no state, also after a later Init.
C5_ViewDecidedOnce ==
    [][/\ last'.op = "V" =>
             (view'.kind = "live"
                <=> (BaseLevel <= last'.level /\ last'.level <= FatalLevel))
       /\ last'.op # "V" => view' = view
       /\ (last'.form = "view" /\ last'.op = "Enabled") =>
             (last'.ret <=> view.kind = "live")
       /\ (last'.form = "view" /\ view.kind = "noop") =>
             /\ last'.cores = {} /\ last'.diag = 0 /\ last'.after = "return"
             /\ ~last'.ret
             /\ UNCHANGED <<_logger, _options, mu, samplers, side, loggers, view,
                            alive, pc, loc, unpublished, hf, bws>>]_vars

\* A view refused at info, an Init that lowered the global level to debug
\* since, and an Infow call on the view that emitted nothing.
C5_Witness ==
    /\ view.kind = "noop"
    /\ view.level = InfoLevel
    /\ BaseLevel = DebugLevel
    /\ last.form = "view"
    /\ last.op = "Infow"
    /\ last.cores = {}

\* C6: every InfoLogger method called directly on a Logger returns the
\* same value and emits the same records as the method called on that
\* Logger's V(0) view.
C6_DirectEqualsV0 ==
    alive =>
        \A method \in InfoMethods : \A args \in MethodArgs(method) :
            InfoCall(Embedded(_logger), method, args, samplers)
              = InfoCall(V(_logger, InfoLevel), method, args, samplers)

-----------------------------------------------------------------------------
(* Derived Loggers: WithName, WithValues and logging through them.         *)

\* The Logger a call is made on: 0 is the global one, i the i-th held.
Recv(r) == IF r = 0 THEN _logger ELSE loggers[r]

NameSegments == {"a", "b", ""}

\* A name segment as an observed argument.
SegArg(seg) == <<[t |-> "string", v |-> seg]>>

\* l.WithName(seg) on a held or the global Logger; the result is kept.
DeriveName(r, seg) ==
    /\ alive
    /\ Len(loggers) < MaxLoggers
    /\ LET nl == WithName(Recv(r), seg)
       IN  /\ loggers' = Append(loggers, nl)
           /\ last' = [NoCall EXCEPT !.op = "WithName", !.recv = r, !.args = SegArg(seg),
                                     !.ret = TRUE, !.name = nl.zapLogger.name,
                                     !.fields = nl.zapLogger.fields, !.form = "derived"]
    /\ UNCHANGED <<_logger, _options, mu, samplers, side, view, alive, pc, loc,
                   unpublished, hf, bws>>

\* l.WithValues(kv...) on a held or the global Logger; the result, if the
\* call returns, is kept.
DeriveValues(r, args) ==
    /\ alive
    /\ FreshTick
    /\ Len(loggers) < MaxLoggers
    /\ LET d == WithValues(Recv(r), args, samplers)
       IN  /\ loggers' = IF d.logger = Nil THEN loggers ELSE Append(loggers, d.logger)
           /\ samplers' = d.smp
           /\ last' = [d.obs EXCEPT !.recv = r, !.form = "derived"]
    /\ UNCHANGED <<_logger, _options, mu, side, view, alive, pc, loc, unpublished, hf, bws>>

\* unnamed/part_000:98-157  Debug .. Fatalw on a held or the global Logger.
LoggerLog(r, lvl, form) ==
    /\ alive
    /\ FreshTick
    /\ LET zl == Recv(r).zapLogger
           ce == LoggerCheck(zl, samplers, lvl, "m")
       IN  /\ samplers' = ce.smp
           /\ last' = [Emit("log", zl, samplers, lvl, "m", CallFields(form))
                         EXCEPT !.form = form, !.recv = r]
           /\ alive' = (ce.after # "exit")
    /\ UNCHANGED <<_logger, _options, mu, side, loggers, view, pc, loc,
                   unpublished, hf, bws>>

\* The global logger after Init in production or development mode, and
\* nothing derived yet.
DeriveInit ==
    /\ \E d \in BOOLEAN :
          /\ _options = [NewOptions EXCEPT !.Development = d]
          /\ _logger = InitBuild(_options, 0, {}).logger
    /\ mu = 0
    /\ samplers = {}
    /\ side = [klog |-> _logger.zapLogger, std |-> _logger.zapLogger]
    /\ loggers = <<>>
    /\ view = NoView
    /\ last = NoCall
    /\ alive = TRUE
    /\ pc = <<>>
    /\ loc = <<>>
    /\ unpublished = {}
    /\ hf = Nil
    /\ bws = Nil

DeriveNext ==
    \/ \E r \in 0..Len(loggers), seg \in NameSegments : DeriveName(r, seg)
    \/ \E r \in 0..Len(loggers), args \in KVLists : DeriveValues(r, args)
    \/ \E r \in 0..Len(loggers), lvl \in MethodLevels, form \in {"plain", "f"} :
          LoggerLog(r, lvl, form)
    \/ Tick

SpecDerive == DeriveInit /\ [][DeriveNext]_vars

\* C7: a derivation never mutates the receiver. Each WithName / WithValues
\* that returns yields a new Logger and leaves the global Logger and every
\* held Logger (the receiver among them) unchanged; the Logger from
\* WithValues carries the receiver's fields followed by the new pairs, the
\* one from WithName the receiver's name with the segment appended (dot
\* separated), and a record logged through a Logger carries exactly that
\* Logger's name and fields before the call's own fields.
C7_DerivationFrame ==
    [][/\ last'.op \in {"WithName", "WithValues"} =>
             /\ _logger' = _logger
             /\ \A i \in DOMAIN loggers : loggers'[i] = loggers[i]
             /\ last'.ret =>
                   /\ Len(loggers') = Len(loggers) + 1
                   /\ LET nl == loggers'[Len(loggers')].zapLogger
                          rl == Recv(last'.recv).zapLogger
                      IN  /\ last'.op = "WithValues" =>
                                /\ nl.fields = rl.fields \o PrefixFields(last'.args)
                                /\ nl.name = rl.name
                          /\ last'.op = "WithName" =>
                                /\ nl.fields = rl.fields
                                /\ nl.name = IF last'.args[1].v = "" THEN rl.name
                                             ELSE rl.name \o <<last'.args[1].v>>
       /\ (last'.op = "log" /\ last'.cores # {}) =>
             /\ last'.fields = Recv(last'.recv).zapLogger.fields \o CallFields(last'.form)
             /\ last'.name = Recv(last'.recv).zapLogger.name]_vars

\* l.WithValues(k, 7) is held first, l.WithValues(k, 7).WithValues(j, k)
\* second (carrying both pairs), and a record just logged through the
\* first carries only k = 7.
C7_Witness ==
    /\ Len(loggers) = 2
    /\ loggers[1].zapLogger.fields = <<[key |-> "k", val |-> IntArg]>>
    /\ loggers[2].zapLogger.fields =
          <<[key |-> "k", val |-> IntArg], [key |-> "j", val |-> StringArg]>>
    /\ last.op = "log"
    /\ last.recv = 1
    /\ last.form = "f"
    /\ last.cores # {}
    /\ last.fields = <<[key |-> "k", val |-> IntArg]>>

-----------------------------------------------------------------------------
(* Concurrent callers: Init step by step under mu, with the lock-free      *)
(* readers GetOptions and the package-level log functions.                 *)

\* The goroutines that call Init.
Procs == {1, 2}

FilePath == "app.log"

\* The locals of a goroutine that is not inside Init.
NoLocals == [opts |-> Nil, failing |-> {}, normal |-> Nil, errS |-> Nil,
             logger |-> Nil, before |-> Nil]

\* Options the concurrent callers pass to Init.
ConcOptions ==
    {[NewOptions EXCEPT !.Level = s, !.OutputPaths = o] :
        s \in {"debug", "error"}, o \in {<<StdoutPath>>, <<FilePath>>}}

\* The levels the concurrent log calls use.
ConcLevels == {InfoLevel, ErrorLevel}

\* helper.go:375-376  mu.Lock(); defer mu.Unlock(). failing: the console
\* streams whose zap.Open returns an error during this call.
InitLock(g, opts, failing) ==
    /\ alive
    /\ pc[g] = "idle"
    /\ mu = 0
    /\ mu' = g
    /\ pc' = [pc EXCEPT ![g] = "options"]
    /\ loc' = [loc EXCEPT ![g] = [NoLocals EXCEPT !.opts = opts, !.failing = failing,
                  !.before = [logger |-> _logger, options |-> _options, side |-> side]]]
    /\ last' = [NoCall EXCEPT !.op = "InitLock", !.recv = g]
    /\ UNCHANGED <<_logger, _options, samplers, side, loggers, view, alive,
                   unpublished, hf, bws>>

\* helper.go:377  _options = opts
InitSetOptions(g) ==
    /\ alive
    /\ pc[g] = "options"
    /\ _options' = loc[g].opts
    /\ pc' = [pc EXCEPT ![g] = "normal"]
    /\ last' = [NoCall EXCEPT !.op = "InitStep", !.recv = g]
    /\ UNCHANGED <<_logger, mu, samplers, side, loggers, view, alive, loc,
                   unpublished, hf, bws>>

\* panic(err) inside Init: the deferred mu.Unlock() runs and the panic
\* leaves Init; the caller recovers it or the process ends.
InitPanics(g, err, recovered) ==
    /\ mu' = 0
    /\ pc' = [pc EXCEPT ![g] = "idle"]
    /\ loc' = [loc EXCEPT ![g] = NoLocals]
    /\ alive' = recovered
    /\ last' = [NoCall EXCEPT !.op = "InitPanic", !.recv = g, !.err = err,
                              !.opts = loc[g].opts]

\* helper.go:378-382  zapCfg, encoder, rotOpts, baseLevel and
\* normalLogOpts, which panics when a path of OutputPaths does not open.
InitNormalOpts(g, recovered) ==
    /\ alive
    /\ pc[g] = "normal"
    /\ LET b == buildWriteSyncer(loc[g].opts.OutputPaths, loc[g].failing)
       IN  IF Len(b.err) # 0
           THEN InitPanics(g, b.err, recovered)
           ELSE /\ loc' = [loc EXCEPT ![g].normal = b.w]
                /\ pc' = [pc EXCEPT ![g] = "errsyncer"]
                /\ last' = [NoCall EXCEPT !.op = "InitStep", !.recv = g]
                /\ UNCHANGED <<mu, alive>>
    /\ UNCHANGED <<_logger, _options, samplers, side, loggers, view, unpublished, hf, bws>>

\* helper.go:384-391  the error sink, with a panic when a path of
\* ErrorOutputPaths does not open.
InitErrSyncer(g, recovered) ==
    /\ alive
    /\ pc[g] = "errsyncer"
    /\ LET b == buildWriteSyncer(loc[g].opts.ErrorOutputPaths, loc[g].failing)
       IN  IF Len(b.err) # 0
           THEN InitPanics(g, b.err, recovered)
           ELSE /\ loc' = [loc EXCEPT ![g].errS = b.w]
                /\ pc' = [pc EXCEPT ![g] = "tee"]
                /\ last' = [NoCall EXCEPT !.op = "InitStep", !.recv = g]
                /\ UNCHANGED <<mu, alive>>
    /\ UNCHANGED <<_logger, _options, samplers, side, loggers, view, unpublished, hf, bws>>

\* helper.go:393-397  the zap options, newTee and _logger = wrapperLogger.
\* Nothing orders the stores that fill the new logger struct before the
\* store of the pointer for a goroutine that reads _logger without mu: the
\* new backend is unpublished until its fields are visible everywhere.
InitSwap(g) ==
    /\ alive
    /\ pc[g] = "tee"
    /\ LET zapCfg    == zapConfigFromOpts(loc[g].opts)
           baseLevel == zapCfg.Level
           be        == FreshBe(Refs(_logger, side, loggers, view, loc))
           teeOpts   == <<normalLogOpts(baseLevel, loc[g].normal),
                          errorLogOpts(baseLevel, loc[g].errS)>>
           wrapper   == NewLogger(newTee(be, teeOpts, InitZapOptions(zapCfg)))
       IN  /\ _logger' = wrapper
           /\ loc' = [loc EXCEPT ![g].logger = wrapper]
           /\ unpublished' = unpublished \cup {be}
    /\ pc' = [pc EXCEPT ![g] = "side"]
    /\ last' = [NoCall EXCEPT !.op = "InitStep", !.recv = g]
    /\ UNCHANGED <<_options, mu, samplers, side, loggers, view, alive, hf, bws>>

\* helper.go:398-399  klog.InitLogger(zapLogger); zap.RedirectStdLog(zapLogger)
InitSideChannels(g) ==
    /\ alive
    /\ pc[g] = "side"
    /\ LET zl == loc[g].logger.zapLogger
           sd == [klog |-> zl, std |-> zl]
       IN  /\ side' = sd
           /\ samplers' = Collect(samplers, Refs(_logger, sd, loggers, view, loc))
    /\ pc' = [pc EXCEPT ![g] = "return"]
    /\ last' = [NoCall EXCEPT !.op = "InitStep", !.recv = g]
    /\ UNCHANGED <<_logger, _options, mu, loggers, view, alive, loc, unpublished, hf, bws>>

\* helper.go:400  Init returns and the deferred mu.Unlock() runs.
InitReturn(g) ==
    /\ alive
    /\ pc[g] = "return"
    /\ mu' = 0
    /\ pc' = [pc EXCEPT ![g] = "idle"]
    /\ last' = [NoCall EXCEPT !.op = "Init", !.recv = g, !.opts = loc[g].opts]
    /\ loc' = [loc EXCEPT ![g] = NoLocals]
    /\ UNCHANGED <<_logger, _options, samplers, side, loggers, view, alive,
                   unpublished, hf, bws>>

\* The stores that assembled a backend become visible to every goroutine.
Publish(be) ==
    /\ alive
    /\ be \in unpublished
    /\ unpublished' = unpublished \ {be}
    /\ last' = [NoCall EXCEPT !.op = "Publish"]
    /\ UNCHANGED <<_logger, _options, mu, samplers, side, loggers, view, alive,
                   pc, loc, hf, bws>>

\* helper.go:562  GetOptions, which takes no lock.
GetOptions ==
    /\ alive
    /\ last' = [NoCall EXCEPT !.op = "GetOptions", !.opts = _options, !.ret = TRUE]
    /\ UNCHANGED <<_logger, _options, mu, samplers, side, loggers, view, alive,
                   pc, loc, unpublished, hf, bws>>

\* helper.go:472-560  a package-level log function called by a goroutine
\* that holds no lock: _logger.zapLogger.<method>. The read of _logger
\* races with Init's store; while the backend it points to is unpublished
\* the reader finds its fields filled (whole) or still zero, and then the
\* call on the nil zapLogger panics, recovered by the caller or not.
ConcLog(lvl, whole, recovered) ==
    /\ alive
    /\ FreshTick
    /\ LET zl == _logger.zapLogger
           ce == LoggerCheck(zl, samplers, lvl, "m")
       IN  IF zl.be \in unpublished /\ ~whole
           THEN /\ last' = [NoCall EXCEPT !.op = "log", !.level = lvl, !.form = "global",
                                          !.ret = FALSE, !.after = "panic"]
                /\ alive' = recovered
                /\ UNCHANGED samplers
           ELSE /\ samplers' = ce.smp
                /\ last' = [Emit("log", zl, samplers, lvl, "m", <<>>)
                              EXCEPT !.form = "global", !.ret = TRUE, !.recv = zl.be]
                /\ UNCHANGED alive
    /\ UNCHANGED <<_logger, _options, mu, side, loggers, view, pc, loc,
                   unpublished, hf, bws>>

\* After init() (helper.go:368): the default logger is installed and
\* visible, and no goroutine is inside Init.
ConcInit ==
    /\ _logger = StartLogger
    /\ _options = NewOptions
    /\ mu = 0
    /\ samplers = {}
    /\ side = [klog |-> StartLogger.zapLogger, std |-> StartLogger.zapLogger]
    /\ loggers = <<>>
    /\ view = NoView
    /\ last = NoCall
    /\ alive = TRUE
    /\ pc = [g \in Procs |-> "idle"]
    /\ loc = [g \in Procs |-> NoLocals]
    /\ unpublished = {}
    /\ hf = Nil
    /\ bws = Nil

ConcNext ==
    \/ \E g \in Procs, opts \in ConcOptions, failing \in SUBSET _stdouts :
          InitLock(g, opts, failing)
    \/ \E g \in Procs : InitSetOptions(g)
    \/ \E g \in Procs, recovered \in BOOLEAN : InitNormalOpts(g, recovered)
    \/ \E g \in Procs, recovered \in BOOLEAN : InitErrSyncer(g, recovered)
    \/ \E g \in Procs : InitSwap(g)
    \/ \E g \in Procs : InitSideChannels(g)
    \/ \E g \in Procs : InitReturn(g)
    \/ \E be \in BackendIds : Publish(be)
    \/ GetOptions
    \/ \E lvl \in ConcLevels, whole \in BOOLEAN, recovered \in BOOLEAN :
          ConcLog(lvl, whole, recovered)
    \/ Tick

SpecConc == ConcInit /\ [][ConcNext]_vars

\* The console paths of both lists, in order, whose open fails.
RECURSIVE FailedPaths(_, _)
FailedPaths(paths, failing) ==
    IF paths = <<>> THEN <<>>
    ELSE (IF Head(paths) \in _stdouts /\ Head(paths) \in failing
          THEN <<Head(paths)>> ELSE <<>>) \o FailedPaths(Tail(paths), failing)

\* C8: a configuration failure is never a partial initialization. Whenever
\* an Init call ends in its panic, the panic carries the failures of all
\* the configured paths of both lists, the mutex is released and, where the
\* caller lives on, the active Logger, the stored Options and the side
\* channels are what they were before the call.
C8_FailureLeavesNoTrace ==
    [][\A g \in Procs :
          (pc[g] \in {"normal", "errsyncer"} /\ last'.op = "InitPanic" /\ last'.recv = g) =>
             /\ last'.err = FailedPaths(loc[g].opts.OutputPaths \o loc[g].opts.ErrorOutputPaths,
                                        loc[g].failing)
             /\ mu' = 0
             /\ _logger' = loc[g].before.logger
             /\ _options' = loc[g].before.options
             /\ side' = loc[g].before.side]_vars

\* C9: the singleton holds a matching pair. The Options a GetOptions call
\* returns are the Options the active global Logger was built from:
\* building from them gives the active Logger.
C9_MatchingPair ==
    last.op = "GetOptions" =>
        _logger = InitBuild(last.opts, _logger.zapLogger.be, {}).logger

\* C10: a reader always sees a whole backend. Every package-level log call
\* made while Init calls run dereferences a fully assembled Logger and
\* goes through it.
C10_ReaderSeesWholeBackend ==
    (last.op = "log" /\ last.form = "global") => (last.ret /\ last.after # "panic")

-----------------------------------------------------------------------------
(* The stacktrace threshold of the logger Init installs.                   *)

\* The threshold buildZapOptions computes (helper.go:131-134).
StackLevel == IF _options.Development THEN WarnLevel ELSE PanicLevel

\* C11: the stacktrace threshold after Init. With stacktraces not disabled,
\* a record written through the global logger carries a stack trace iff its
\* level is at or above warn when Options.Development is true, and at or
\* above panic otherwise.
C11_StacktraceThreshold ==
    (/\ last.op = "log"
     /\ last.cores # {}
     /\ ~_options.DisableStacktrace) => (last.stack <=> last.level >= StackLevel)

-----------------------------------------------------------------------------
(* buildWriteSyncer evaluated directly on a list of paths.                 *)

ErrFilePath == "err.log"

\* The destinations a path list is drawn from.
SinkPaths == {StdoutPath, StderrPath, FilePath, ErrFilePath}

\* A direct evaluation pending: the path list and the console streams whose
\* zap.Open fails.
SyncerInit ==
    /\ _logger = StartLogger
    /\ _options = NewOptions
    /\ mu = 0
    /\ samplers = {}
    /\ side = [klog |-> StartLogger.zapLogger, std |-> StartLogger.zapLogger]
    /\ loggers = <<>>
    /\ view = NoView
    /\ last = NoCall
    /\ alive = TRUE
    /\ pc = <<>>
    /\ loc = <<>>
    /\ unpublished = {}
    /\ hf = Nil
    /\ bws \in {[state |-> "call", paths |-> p, failing |-> f, out |-> Nil] :
                   p \in ListsUpTo(SinkPaths, MaxPaths), f \in SUBSET _stdouts}

\* buildWriteSyncer(bws.paths, rotOpts) returns.
BuildWriteSyncerCall ==
    /\ bws.state = "call"
    /\ bws' = [bws EXCEPT !.state = "returned",
                          !.out = buildWriteSyncer(bws.paths, bws.failing)]
    /\ last' = [NoCall EXCEPT !.op = "buildWriteSyncer"]
    /\ UNCHANGED <<_logger, _options, mu, samplers, side, loggers, view, alive,
                   pc, loc, unpublished, hf>>

SyncerNext == BuildWriteSyncerCall

SpecSyncer == SyncerInit /\ [][SyncerNext]_vars

\* Whether opening path p fails.
OpenFails(p, failing) == p \in _stdouts /\ p \in failing

\* The paths of a list, in order, that are console streams or not, among
\* those that opened.
RECURSIVE OpenedPaths(_, _, _)
OpenedPaths(paths, failing, consoleOnly) ==
    IF paths = <<>> THEN <<>>
    ELSE (IF ~OpenFails(Head(paths), failing) /\ (consoleOnly => Head(paths) \in _stdouts)
          THEN <<Head(paths)>> ELSE <<>>)
         \o OpenedPaths(Tail(paths), failing, consoleOnly)

\* One member per path, in path order.
MemberPerPath(paths) ==
    [i \in DOMAIN paths |->
        [kind |-> IF paths[i] \in _stdouts THEN "console" ELSE "file", path |-> paths[i]]]

\* What holds of every call whichever resources are closed on failure: no
\* sink and one aggregate error over all failed paths when a path fails,
\* else the fan-out sink with one member per path in path order.
SinkOrAggregateError ==
    IF \E i \in DOMAIN bws.paths : OpenFails(bws.paths[i], bws.failing)
    THEN /\ bws.out.w = Nil
         /\ bws.out.err = FailedPaths(bws.paths, bws.failing)
    ELSE /\ bws.out.w = [members |-> MemberPerPath(bws.paths)]
         /\ bws.out.err = <<>>
         /\ bws.out.closed = <<>>

\* C12 as stated: the sink builder is all-or-nothing, and on a failure it
\* closes every resource it opened earlier in the call, console streams
\* and file sinks alike.
C12_ClosesAllOpened ==
    bws.state = "returned" =>
        /\ SinkOrAggregateError
        /\ (bws.out.w = Nil) =>
              bws.out.closed = OpenedPaths(bws.paths, bws.failing, FALSE)

\* C12, amended: the sink builder is all-or-nothing, and on a failure it
\* closes the console streams it opened in the call, in order, and only
\* those: the rotating file sinks, which open no file until written to,
\* are dropped unclosed.
C12_ClosesConsoleOpened ==
    bws.state = "returned" =>
        /\ SinkOrAggregateError
        /\ (bws.out.w = Nil) =>
              bws.out.closed = OpenedPaths(bws.paths, bws.failing, TRUE)

\* stdout opens, a file sink is built, stderr fails: no sink, the error
\* names stderr, and stdout alone was closed.
C12_Witness ==
    /\ bws.state = "returned"
    /\ bws.paths = <<StdoutPath, FilePath, StderrPath>>
    /\ bws.failing = {StderrPath}
    /\ bws.out.w = Nil
    /\ bws.out.err = <<StderrPath>>
    /\ bws.out.closed = <<StdoutPath>>

-----------------------------------------------------------------------------
(* CheckIntLevel (helper.go:458) among Init, log calls and ticks.          *)

MaxInt32 == 2147483647
MinInt32 == -MaxInt32 - 1

\* The int32 levels asked about: both ends of the type and both sides of 5.
IntLevels == {MinInt32, 0, 4, 5, 6, MaxInt32}

\* helper.go:459-464  the zap level an int32 level maps to.
IntLevelToZap(level) == IF level < 5 THEN InfoLevel ELSE DebugLevel

\* Options Init is called with around the queries.
CheckOptions == {[NewOptions EXCEPT !.Level = s] : s \in {"debug", "info", "error"}}

\* helper.go:458-470  CheckIntLevel(level): _logger.zapLogger.Check(lvl, "")
\* and whether the checked entry is not nil. Check goes through the
\* sampler, which counts the entry under (lvl, "").
CheckIntLevelCall(level) ==
    /\ alive
    /\ LET lvl == IntLevelToZap(level)
           zl  == _logger.zapLogger
           ce  == LoggerCheck(zl, samplers, lvl, "")
       IN  /\ ce.n < MaxCalls
           /\ \A r \in samplers : r.lvl = lvl /\ r.msg = ""
           /\ samplers' = ce.smp
           /\ last' = [NoCall EXCEPT !.op = "CheckIntLevel", !.level = lvl,
                                     !.ret = ce.nonNil, !.n = ce.n]
    /\ UNCHANGED <<_logger, _options, mu, side, loggers, view, alive, pc, loc,
                   unpublished, hf, bws>>

\* helper.go:472-500  Debug("") / Info("") on the global logger: a record
\* with the message CheckIntLevel checks with.
EmptyMessageLog(lvl) ==
    /\ alive
    /\ LET zl == _logger.zapLogger
           ce == LoggerCheck(zl, samplers, lvl, "")
       IN  /\ ce.n < MaxCalls
           /\ \A r \in samplers : r.lvl = lvl /\ r.msg = ""
           /\ samplers' = ce.smp
           /\ last' = [Emit("log", zl, samplers, lvl, "", <<>>) EXCEPT !.form = "empty"]
    /\ UNCHANGED <<_logger, _options, mu, side, loggers, view, alive, pc, loc,
                   unpublished, hf, bws>>

CheckNext ==
    \/ \E opts \in CheckOptions : InitCall(opts)
    \/ \E level \in IntLevels : CheckIntLevelCall(level)
    \/ \E lvl \in {DebugLevel, InfoLevel} : EmptyMessageLog(lvl)
    \/ Tick

SpecCheck == Init /\ [][CheckNext]_vars

\* C13: CheckIntLevel is a pure query. Every call returns true iff the
\* level its argument maps to (info below 5, debug otherwise) is at or
\* above the configured minimum level, whatever calls came before, and it
\* leaves the sampler's counters as they were.
C13_PureQuery ==
    [][last'.op = "CheckIntLevel" =>
          /\ last'.ret <=> (last'.level >= BaseLevel)
          /\ samplers' = samplers]_vars

====
